---- MODULE Spec2Model ----
(***************************************************************************)
(* The connection/execution core of backend/main.py: the process-wide      *)
(* CONNECTIONS registry, create_connection, run_query and run_raw_query.   *)
(* These handlers are plain `def` endpoints, which the framework runs on a *)
(* thread pool: a task below is one request being served, and the steps of *)
(* different tasks interleave.  list_connections, update_connection and    *)
(* terminate are coroutines, which the event loop runs itself.             *)
(***************************************************************************)
EXTENDS Integers, Sequences, FiniteSets, TLC

VARIABLES
    CONNECTIONS,    \* main.py:128  name -> Executor, or None
    heap,           \* the Environment objects: reference -> set of concepts
    lastUpsert,     \* history: name -> the request whose store came last
    pc,             \* task -> position in its handler
    kind,           \* task -> the endpoint it serves
    req,            \* task -> the request body
    executor,       \* task -> the handler's local `executor`
    sql,            \* task -> run_query's local `sql` (the statement plans)
    rs,             \* task -> the local `rs`
    compiled_sql,   \* task -> the local `compiled_sql`
    outputs,        \* task -> the local `outputs`
    loop_i,         \* task -> how many statements of `sql` the loop has taken
    calls,          \* task -> the driver calls this request has made
    formatted,      \* task -> what safe_format_query gave for the request's text
    response,       \* task -> the HTTP response, once the handler has ended
    event_loop      \* the asyncio event loop of the process: running or stopped

vars == <<CONNECTIONS, heap, lastUpsert, pc, kind, req, executor, sql,
          rs, compiled_sql, outputs, loop_i, calls, formatted, response, event_loop>>

----------------------------------------------------------------------------
(* Bounds of the model *)

MaxStmts == 2
MaxSources == 1
TableRows == 2
MaxChars == 2

(* Program constants *)

STATEMENT_LIMIT == 100

----------------------------------------------------------------------------
(* Values *)

\* Python's None where the other values are strings; an Optional of any other
\* type is a sequence of length 0 (None) or 1.
None == "None"
Nothing == <<>>
Some(v) == <<v>>
IsSome(o) == o /= <<>>
The(o) == o[1]

Tasks == {"t1", "t2"}
Names == {"a", "b"}

DUCK_DB == "duck_db"
BIGQUERY == "bigquery"
POSTGRES == "postgres"
Dialects == {DUCK_DB, BIGQUERY, POSTGRES}

\* Concepts an environment can hold, both in the default namespace.  "x" is
\* bound to a table the database has, "y" to one it does not have.
DEFAULT_NAMESPACE == "local"
Concepts == {"x", "y"}
Namespace(c) == DEFAULT_NAMESPACE
ConceptName(c) == c
ConceptAddress(c) == c
ConceptPurpose(c) == IF c = "y" THEN "property" ELSE "metric"
ConceptDatatype(c) == IF c = "y" THEN "string" ELSE "int"
PhysicalTable(c) == IF c = "y" THEN "missing" ELSE "tbl"

\* The template inventory (public_models): one pre-built model, the
\* Environment object at reference 0; it declares "y" and not "x", so that a
\* query text can declare a concept the template does not have.  The objects
\* create_connection
\* allocates take the references 1, 2, ...: at most one per registered name
\* and one per request in flight are alive at a time.
ModelNames == {"m"}
public_models == [m \in ModelNames |-> 0]
TemplateContents == {"y"}
MaxObjects == Cardinality(Names) + Cardinality(Tasks)
EnvRefs == 0..MaxObjects

Min(a, b) == IF a < b THEN a ELSE b
Last(seq) == seq[Len(seq)]

----------------------------------------------------------------------------
(* Request bodies *)

Dict(k, v) == k :> v
EmptyDict == <<>>
DictGet(d, k, default) == IF k \in DOMAIN d THEN d[k] ELSE default
TruthyDict(d) == DOMAIN d /= {}
TruthyStr(v) == v \notin {None, ""}

\* ModelSourceInSchema: an alias and the source text.  "key x" declares the
\* concept x; "garbage" is text the parser rejects.
ModelSources == {[alias |-> "", contents |-> "key x"],
                 [alias |-> "ns", contents |-> "garbage"]}

SeqsUpTo(S, n) == UNION {[1..k -> S] : k \in 0..n}

\* full_model: ModelInSchema | None
FullModels == {Nothing} \cup {Some(m) : m \in [sources : SeqsUpTo(ModelSources, MaxSources)]}

\* What the credential chain of lines 274-294 ends with: it raises, or it
\* gives credentials with a project id, or credentials without one.
CredentialOutcomes == {"raises", "project", "no_project"}

Extras == {EmptyDict, Dict("project", "p"), Dict("other", "v")}

\* ConnectionInSchema, with the outcome of credential discovery for the
\* request (read only on the BIGQUERY branch).
ConnectionRequests ==
    {c \in [name : Names, dialect : Dialects, extra : Extras,
            model : {None, "m", "unknown"}, full_model : FullModels,
            credentials : CredentialOutcomes] :
        c.dialect /= BIGQUERY => (c.extra = EmptyDict /\ c.credentials = "raises")}

\* Declarative query text.  Its characters are of three kinds: white space,
\* the statement terminator, and "q" for any other character.  By what the
\* compiler makes of it, the text is: whether the grammar accepts it, the
\* concepts it declares, and its select statements in source order, each with
\* the concept it selects and its limit clause (an Optional integer).
Chars == {" ", ";", "q"}
CharSeqs == SeqsUpTo(Chars, MaxChars)
Body == <<"q">>
Limits == {Nothing, Some(0), Some(10), Some(150)}
Statements ==
    [select : {"x"}, limit : Limits] \cup [select : {"y"}, limit : {Nothing}]
QueryTexts ==
    {[chars |-> Body, valid |-> FALSE, defs |-> {}, stmts |-> <<>>]}
    \cup [chars : {Body}, valid : {TRUE}, defs : {{}, {"x"}},
          stmts : SeqsUpTo(Statements, MaxStmts)]
    \cup [chars : CharSeqs, valid : {TRUE}, defs : {{}}, stmts : {<<>>}]

\* SQL text, by what the database makes of it: the dialect it is written in,
\* the statement it was rendered from, the table it reads, the column it
\* reports and its LIMIT clause.
EmptySql == [dialect |-> None, pos |-> 0, table |-> "", header |-> "", limit |-> Nothing]

\* Raw SQL a caller submits; the column it selects takes the name the text
\* gives it (select ... as _index).
RawTexts == [dialect : {"raw"}, pos : {0}, table : {"tbl", "missing"},
             header : {"x", "_index"}, limit : {Nothing, Some(1)}]

QueryInSchema == [connection : Names, query : QueryTexts]
RawQueryInSchema == [connection : Names, query : RawTexts]

----------------------------------------------------------------------------
(* Responses *)

\* raise HTTPException(status, detail): http_exception_handler renders the
\* status and the detail, nothing else.
HTTPException(status, detail) ==
    [status |-> status, detail |-> detail, generated_sql |-> EmptySql,
     headers |-> <<>>, results |-> <<>>, columns |-> <<>>]

\* An exception no handler catches: the framework's 500.
Unhandled == HTTPException(500, "Internal Server Error")

QueryOut(generated, headers, results, columns) ==
    [status |-> 200, detail |-> None, generated_sql |-> generated,
     headers |-> headers, results |-> results, columns |-> columns]

\* create_connection returns None: 200 with a null body.
Created == [status |-> 200, detail |-> None, generated_sql |-> EmptySql,
            headers |-> <<>>, results |-> <<>>, columns |-> <<>>]

NoResponse == [status |-> 0, detail |-> None, generated_sql |-> EmptySql,
               headers |-> <<>>, results |-> <<>>, columns |-> <<>>]

\* ConnectionListItem, lines 161-164: name: str, dialect: Dialects, model: str.
\* The item is validated when it is constructed, and a value that is not a
\* string is no valid `model`; an Environment object (a reference of the
\* heap) is not a string.
IsStr(v) == v \notin EnvRefs
ConnectionListItem(name, dialect, model) ==
    [ok |-> IsStr(model), name |-> name, dialect |-> dialect]

\* ConnectionListOutput, lines 167-168.
ConnectionListOutput(items) == [status |-> 200, detail |-> None, connections |-> items]

\* Lines 475-480 of http_exception_handler: the response gets exit_app as its
\* background task when the status of the exception is 503.
BackgroundOnServerFault(r) == r.status >= 500
Background(r) == r.status = 503

----------------------------------------------------------------------------
(* Environment construction: create_connection, lines 261-272 *)

\* env.parse(contents) and env.parse(contents, namespace=alias): the concepts
\* the source declares, or a failure.
ParseRaises(source) == source.contents = "garbage"
ParsedConcepts(source) == IF source.contents = "key x" THEN {"x"} ELSE {}

\* parse_env_from_full_model: the sources in list order into one Environment;
\* the first source that fails to parse raises out of the loop.
RECURSIVE ParseSources(_, _)
ParseSources(sources, env) ==
    IF sources = <<>> THEN [ok |-> TRUE, env |-> env]
    ELSE IF ParseRaises(Head(sources)) THEN [ok |-> FALSE, env |-> env]
    ELSE ParseSources(Tail(sources), env \cup ParsedConcepts(Head(sources)))

parse_env_from_full_model(input) == ParseSources(input.sources, {})

\* A variant of line 268 that is not the code's: the template itself, with
\* no copy made.
ShareTemplate(h, name, fresh) == [ref |-> public_models[name], heap |-> h]

\* deepcopy(public_models[name]): a new object with the template's contents.
\* The result is the heap with the copy at the fresh reference.
DeepCopyTemplate(h, name, fresh) ==
    [ref |-> fresh, heap |-> [h EXCEPT ![fresh] = h[public_models[name]]]]

NewEnvironment(h, contents, fresh) ==
    [ref |-> fresh, heap |-> [h EXCEPT ![fresh] = contents]]

\* A variant of lines 261-272 that is not the code's: the named model is
\* looked at before the full model.
BuildEnvironmentNamedFirst(c, h, fresh) ==
    IF TruthyStr(c.model)
    THEN IF c.model \in DOMAIN public_models
         THEN [ok |-> TRUE, built |-> DeepCopyTemplate(h, c.model, fresh)]
         ELSE [ok |-> TRUE, built |-> NewEnvironment(h, {}, fresh)]
    ELSE IF IsSome(c.full_model)
    THEN LET parsed == parse_env_from_full_model(The(c.full_model))
         IN  [ok |-> parsed.ok, built |-> NewEnvironment(h, parsed.env, fresh)]
    ELSE [ok |-> TRUE, built |-> NewEnvironment(h, {}, fresh)]

\* Lines 261-272: which source the environment is built from.
BuildEnvironment(c, h, fresh) ==
    IF IsSome(c.full_model)
    THEN LET parsed == parse_env_from_full_model(The(c.full_model))
         IN  [ok |-> parsed.ok, built |-> NewEnvironment(h, parsed.env, fresh)]
    ELSE IF TruthyStr(c.model)
    THEN IF c.model \in DOMAIN public_models
         THEN [ok |-> TRUE, built |-> DeepCopyTemplate(h, c.model, fresh)]
         ELSE [ok |-> TRUE, built |-> NewEnvironment(h, {}, fresh)]
    ELSE [ok |-> TRUE, built |-> NewEnvironment(h, {}, fresh)]

\* The status create_connection raises when the full model does not parse.
FullModelParseError == HTTPException(500, "parse error")

----------------------------------------------------------------------------
(* Driver construction: create_connection, lines 273-317 *)

\* Lines 274-296: the project the credentials gave, overridden by the
\* request's extra when that dict is non-empty and has the key.
ResolveProject(c) ==
    LET project == IF c.credentials = "project" THEN "ambient" ELSE None
    IN  IF TruthyDict(c.extra) THEN DictGet(c.extra, "project", project) ELSE project

MissingProject == HTTPException(400, "BigQuery dialect requires a project")
UnsupportedDialect == HTTPException(400, "this dialect type is not supported currently")

Engine(id, dialect) == [id |-> id, dialect |-> dialect]
Executor(dialect, engine, environment) ==
    [dialect |-> dialect, engine |-> engine, environment |-> environment]

\* Lines 273-317: the executor for the request, or the response it fails with.
BuildExecutor(c, environment, fresh) ==
    IF c.dialect = BIGQUERY
    THEN IF c.credentials = "raises"
         THEN [ok |-> FALSE, error |-> Unhandled]
         ELSE IF ~TruthyStr(ResolveProject(c))
         THEN [ok |-> FALSE, error |-> MissingProject]
         ELSE [ok |-> TRUE,
               executor |-> Executor(c.dialect, Engine(fresh, BIGQUERY), environment)]
    ELSE IF c.dialect = DUCK_DB
    THEN [ok |-> TRUE,
          executor |-> Executor(c.dialect, Engine(fresh, DUCK_DB), environment)]
    ELSE [ok |-> FALSE, error |-> UnsupportedDialect]

\* Variants of line 318 that are not the code's: an update of the fields of
\* the entry in place that leaves its environment, and a store that keeps an
\* entry already there.
UpsertInPlace(conns, name, ex) ==
    IF name \in DOMAIN conns
    THEN [conns EXCEPT ![name] = Executor(ex.dialect, ex.engine, conns[name].environment)]
    ELSE [n \in DOMAIN conns \cup {name} |-> IF n = name THEN ex ELSE conns[n]]
UpsertIfAbsent(conns, name, ex) ==
    IF name \in DOMAIN conns THEN conns
    ELSE [n \in DOMAIN conns \cup {name} |-> IF n = name THEN ex ELSE conns[n]]

\* Line 318: CONNECTIONS[connection.name] = executor
Upsert(conns, name, ex) ==
    [n \in DOMAIN conns \cup {name} |-> IF n = name THEN ex ELSE conns[n]]

\* A variant of the lookup that is not the code's: a missing name falls back
\* to a connection that is there.
GetOrFallback(conns, name) ==
    IF name \in DOMAIN conns THEN Some(conns[name])
    ELSE IF DOMAIN conns /= {} THEN Some(conns[CHOOSE n \in DOMAIN conns : TRUE])
    ELSE Nothing

\* CONNECTIONS.get(name)
Get(conns, name) == IF name \in DOMAIN conns THEN Some(conns[name]) ELSE Nothing

\* The objects some reference still reaches: the registry's executors and the
\* `executor` local of each request in flight.
Referenced(conns, execs) ==
    UNION {{conns[n].engine.id, conns[n].environment} : n \in DOMAIN conns}
    \cup UNION {{The(execs[t]).engine.id, The(execs[t]).environment} :
                  t \in {u \in DOMAIN execs : IsSome(execs[u])}}

\* The identity a new object gets: one no live object has.
Fresh(conns, execs) ==
    CHOOSE r \in 1..MaxObjects :
        /\ r \notin Referenced(conns, execs)
        /\ \A q \in 1..(r - 1) : q \in Referenced(conns, execs)

\* The runtime reclaims an Environment no reference reaches (a replaced
\* executor's, once no request holds it); the templates are module globals.
Collect(h, conns, execs) ==
    [r \in DOMAIN h |-> IF r = 0 \/ r \in Referenced(conns, execs) THEN h[r] ELSE {}]

----------------------------------------------------------------------------
(* The compiler and the driver, as run_query and run_raw_query use them *)

\* str.strip(): the text without the white space at its two ends.
RECURSIVE LStrip(_)
LStrip(text) == IF text /= <<>> /\ Head(text) = " " THEN LStrip(Tail(text)) ELSE text
RECURSIVE RStrip(_)
RStrip(text) ==
    IF text /= <<>> /\ Last(text) = " " THEN RStrip(SubSeq(text, 1, Len(text) - 1))
    ELSE text
Strip(text) == LStrip(RStrip(text))

\* Lines 195-199.  input[-1] on the empty string raises IndexError: ok is
\* FALSE and there is no text.
safe_format_query(input) ==
    LET stripped == Strip(input)
    IN  IF stripped = <<>> THEN [ok |-> FALSE, text |-> <<>>]
        ELSE IF Last(stripped) /= ";" THEN [ok |-> TRUE, text |-> Append(stripped, ";")]
        ELSE [ok |-> TRUE, text |-> stripped]

\* parse_text(text, environment) and generate_queries: the text compiles when
\* the grammar accepts it and every concept it selects is declared, by the
\* environment or by the text itself.
CompileOk(text, env) ==
    /\ text.valid
    /\ \A k \in 1..Len(text.stmts) : text.stmts[k].select \in env \cup text.defs

\* parse_text adds the text's declarations to the environment it is given.
EnvAfterParse(text, env) == IF text.valid THEN env \cup text.defs ELSE env

\* One statement plan per select, in source order.
GenerateQueries(text) ==
    [k \in 1..Len(text.stmts) |->
        [pos |-> k, select |-> text.stmts[k].select, limit |-> text.stmts[k].limit]]

\* Lines 402-404: the display name of a compiled column.
DisplayName(c) ==
    IF Namespace(c) = DEFAULT_NAMESPACE THEN ConceptName(c) ELSE ConceptAddress(c)

\* generator.compile_statement(statement): the dialect's SQL for the plan.
CompileStatement(dialect, statement) ==
    [dialect |-> dialect, pos |-> statement.pos,
     table |-> PhysicalTable(statement.select),
     header |-> DisplayName(statement.select), limit |-> statement.limit]

\* engine.execute(text) raises when the table is not there, or when the text is
\* in another dialect than the engine's.
DriverRejects(engine, text) ==
    \/ text.table = "missing"
    \/ text.dialect \notin {"raw", engine.dialect}

\* The result set: its keys(), and the rows fetchall() gives.
RowCount(text) ==
    IF IsSome(text.limit) THEN Min(The(text.limit), TableRows) ELSE TableRows
DriverExecute(engine, text) ==
    [keys |-> <<text.header>>,
     rows |-> [k \in 1..RowCount(text) |-> (text.header :> k)]]

\* rs.fetchall(), lines 421 and 349: the cursor gives its rows, or it raises
\* (a connection lost while the rows are paged, a result that has no rows to
\* return).
FetchOutcomes == {"rows", "raises"}

\* Lines 391-395: the limit after the cap.
ClampLimit(limit) ==
    IF IsSome(limit) /\ The(limit) /= 0
    THEN Some(Min(The(limit), STATEMENT_LIMIT))
    ELSE Some(STATEMENT_LIMIT)

\* Lines 398-410: the column metadata of a statement.
StatementOutputs(statement) ==
    << <<ConceptName(statement.select),
         [name |-> DisplayName(statement.select),
          purpose |-> ConceptPurpose(statement.select),
          datatype |-> ConceptDatatype(statement.select)]>> >>

\* Lines 330-340: the column metadata of a raw result.
RawOutputs(result) ==
    [k \in 1..Len(result.keys) |->
        <<result.keys[k],
          [name |-> result.keys[k], purpose |-> "key", datatype |-> "string"]>>]

\* Lines 414-422 and 343-351: headers and row mappings of the last result.
Headers(result) == IF ~IsSome(result) THEN <<>> ELSE The(result).keys
RowMappings(result) ==
    IF ~IsSome(result) THEN <<>>
    ELSE [k \in 1..Len(The(result).rows) |->
            The(result).rows[k] @@ ("_index" :> (k - 1))]

----------------------------------------------------------------------------
(* The state after the module is loaded *)

NoExecutor == Nothing
NoRequest == [endpoint |-> None]

Init ==
    /\ CONNECTIONS = <<>>
    /\ heap = [r \in EnvRefs |-> IF r = 0 THEN TemplateContents ELSE {}]
    /\ lastUpsert = <<>>
    /\ pc = [t \in Tasks |-> "idle"]
    /\ kind = [t \in Tasks |-> None]
    /\ req = [t \in Tasks |-> NoRequest]
    /\ executor = [t \in Tasks |-> NoExecutor]
    /\ sql = [t \in Tasks |-> Nothing]
    /\ rs = [t \in Tasks |-> Nothing]
    /\ compiled_sql = [t \in Tasks |-> EmptySql]
    /\ outputs = [t \in Tasks |-> <<>>]
    /\ loop_i = [t \in Tasks |-> 0]
    /\ calls = [t \in Tasks |-> <<>>]
    /\ formatted = [t \in Tasks |-> Nothing]
    /\ response = [t \in Tasks |-> NoResponse]
    /\ event_loop = "running"

registry == <<CONNECTIONS, heap, lastUpsert>>
locals == <<executor, sql, rs, compiled_sql, outputs, loop_i, calls, formatted>>

\* The handler of task t ends with response r.
Ends(t, r) ==
    /\ pc' = [pc EXCEPT ![t] = "done"]
    /\ response' = [response EXCEPT ![t] = r]

\* A request is taken while the event loop runs.
Begins(t, endpoint, body) ==
    /\ pc[t] = "idle"
    /\ event_loop = "running"
    /\ kind' = [kind EXCEPT ![t] = endpoint]
    /\ req' = [req EXCEPT ![t] = body]
    /\ UNCHANGED event_loop

----------------------------------------------------------------------------
(* POST /connection: create_connection, lines 259-318 *)

\* Lines 260-317, for the endpoint that runs them: the environment and the
\* executor are built from the request; every failure leaves the handler
\* before line 318.
create_connection_lines_260_317(t, endpoint, requests) ==
    \E c \in requests :
        /\ Begins(t, endpoint, c)
        /\ LET fresh == Fresh(CONNECTIONS, executor)
               env == BuildEnvironment(c, heap, fresh)
               built == BuildExecutor(c, env.built.ref, fresh)
           IN  IF ~env.ok
               THEN /\ Ends(t, FullModelParseError)
                    /\ UNCHANGED <<registry, locals>>
               ELSE IF ~built.ok
               THEN /\ Ends(t, built.error)
                    /\ UNCHANGED <<registry, locals>>
               ELSE /\ heap' = env.built.heap
                    /\ executor' = [executor EXCEPT ![t] = Some(built.executor)]
                    /\ pc' = [pc EXCEPT ![t] = "store"]
                    /\ UNCHANGED <<CONNECTIONS, lastUpsert, sql, rs, compiled_sql,
                                   outputs, loop_i, calls, formatted, response>>

create_connection_build(t, requests) ==
    create_connection_lines_260_317(t, "create_connection", requests)

\* Line 318, for the endpoint that runs it, which then ends with r.
create_connection_line_318(t, endpoint, r) ==
    /\ pc[t] = "store"
    /\ kind[t] = endpoint
    /\ CONNECTIONS' = Upsert(CONNECTIONS, req[t].name, The(executor[t]))
    /\ lastUpsert' = [n \in DOMAIN lastUpsert \cup {req[t].name} |->
                        IF n = req[t].name
                        THEN [dialect |-> req[t].dialect, id |-> The(executor[t]).engine.id]
                        ELSE lastUpsert[n]]
    /\ heap' = Collect(heap, CONNECTIONS', executor)
    /\ Ends(t, r)
    /\ UNCHANGED <<kind, req, locals, event_loop>>

\* Line 318, and the implicit return of None.
create_connection_store(t) == create_connection_line_318(t, "create_connection", Created)

----------------------------------------------------------------------------
(* PUT /connection: update_connection, lines 252-256 *)

\* `await create_connection(connection)`: create_connection is a plain
\* function, so the call runs it to its end, in the coroutine; what it raises
\* is what update_connection raises.
update_connection_build(t, requests) ==
    create_connection_lines_260_317(t, "update_connection", requests)

\* When create_connection returns, the value awaited is None: the await
\* raises TypeError, which no handler catches, after line 318 has stored.
AwaitNone == Unhandled
update_connection_store(t) == create_connection_line_318(t, "update_connection", AwaitNone)

----------------------------------------------------------------------------
(* GET /connections: list_connections, lines 242-249 *)

ListRequest == [endpoint |-> "list_connections"]

\* One item per entry of CONNECTIONS; the first item that does not validate
\* raises out of the loop, and no handler catches it.
list_connections(t) ==
    /\ Begins(t, "list_connections", ListRequest)
    /\ LET items == {ConnectionListItem(n, CONNECTIONS[n].dialect,
                                        CONNECTIONS[n].environment) :
                        n \in DOMAIN CONNECTIONS}
       IN  IF \E item \in items : ~item.ok
           THEN Ends(t, Unhandled)
           ELSE Ends(t, ConnectionListOutput(items))
    /\ UNCHANGED <<registry, locals>>

----------------------------------------------------------------------------
(* POST /query: run_query, lines 366-434 *)

NotALiveConnection == HTTPException(403, "Not a valid live connection")

\* A variant of run_query that is not the code's: the registry is read again
\* at each use of the executor.
RegistryExecutor(t) == CONNECTIONS[req[t].connection]

\* The local `executor` of line 370, as lines 380-397 read it.
LocalExecutor(t) == The(executor[t])

\* A variant of line 384 that is not the code's: the compile failure raised
\* with the status of the execution failure.
ParsingErrorAsServerFault == HTTPException(500, "Parsing error")

\* Line 384
ParsingError == HTTPException(422, "Parsing error")

\* Lines 367-374: the lookup.
run_query_get(t, requests) ==
    \E q \in requests :
        /\ Begins(t, "run_query", q)
        /\ LET found == Get(CONNECTIONS, q.connection)
           IN  IF ~IsSome(found)
               THEN /\ Ends(t, NotALiveConnection)
                    /\ UNCHANGED <<registry, locals>>
               ELSE /\ executor' = [executor EXCEPT ![t] = found]
                    /\ pc' = [pc EXCEPT ![t] = "compile"]
                    /\ UNCHANGED <<registry, sql, rs, compiled_sql, outputs,
                                   loop_i, calls, formatted, response>>

\* Lines 376-388: the text is normalised, then parsed and planned against
\* the executor's environment; an exception of any of the three is the
\* parsing error.  Then the holders of the loop are initialised.
run_query_compile(t) ==
    /\ pc[t] = "compile"
    /\ LET ref == LocalExecutor(t).environment
           text == req[t].query
           normal == safe_format_query(text.chars)
       IN  /\ formatted' = [formatted EXCEPT ![t] = Some(normal)]
           /\ heap' = IF normal.ok
                      THEN [heap EXCEPT ![ref] = EnvAfterParse(text, heap[ref])]
                      ELSE heap
           /\ IF ~normal.ok \/ ~CompileOk(text, heap[ref])
              THEN /\ Ends(t, ParsingError)
                   /\ UNCHANGED <<executor, sql, rs, compiled_sql, outputs, loop_i, calls>>
              ELSE /\ sql' = [sql EXCEPT ![t] = Some(GenerateQueries(text))]
                   /\ rs' = [rs EXCEPT ![t] = Nothing]
                   /\ compiled_sql' = [compiled_sql EXCEPT ![t] = EmptySql]
                   /\ loop_i' = [loop_i EXCEPT ![t] = 0]
                   /\ pc' = [pc EXCEPT ![t] = "loop"]
                   /\ UNCHANGED <<executor, outputs, calls, response>>
    /\ UNCHANGED <<CONNECTIONS, lastUpsert, kind, req, event_loop>>

\* A variant of lines 412-413 that is not the code's: the failure carries
\* what the holders have from the statements before.
ExecutionErrorWithHolders(t) ==
    [status |-> 500, detail |-> "driver error", generated_sql |-> compiled_sql[t],
     headers |-> Headers(rs[t]), results |-> RowMappings(rs[t]), columns |-> outputs[t]]

\* The except clause of lines 412-413.
ExecutionError(t) == HTTPException(500, "driver error")

\* Lines 389-410: one iteration of the loop over the plans.
run_query_statement(t) ==
    /\ pc[t] = "loop"
    /\ loop_i[t] < Len(The(sql[t]))
    /\ LET k == loop_i[t] + 1
           ex == LocalExecutor(t)
           statement == [The(sql[t])[k] EXCEPT !.limit = ClampLimit(@)]
           text == CompileStatement(ex.dialect, statement)
       IN  /\ sql' = [sql EXCEPT ![t] = Some([The(sql[t]) EXCEPT ![k] = statement])]
           /\ compiled_sql' = [compiled_sql EXCEPT ![t] = text]
           /\ calls' = [calls EXCEPT ![t] = Append(@, [engine |-> ex.engine, text |-> text])]
           /\ loop_i' = [loop_i EXCEPT ![t] = k]
           /\ IF DriverRejects(ex.engine, text)
              THEN /\ Ends(t, ExecutionError(t))
                   /\ UNCHANGED <<rs, outputs>>
              ELSE /\ rs' = [rs EXCEPT ![t] = Some(DriverExecute(ex.engine, text))]
                   /\ outputs' = [outputs EXCEPT ![t] = StatementOutputs(statement)]
                   /\ UNCHANGED <<pc, response>>
    /\ UNCHANGED <<registry, kind, req, executor, formatted, event_loop>>

\* A variant of lines 414-434 that is not the code's: the response reports
\* the first statement the request executed.
QueryResultOfFirstStatement(t) ==
    IF calls[t] = <<>>
    THEN QueryOut(compiled_sql[t], Headers(rs[t]), RowMappings(rs[t]), outputs[t])
    ELSE LET first == DriverExecute(calls[t][1].engine, calls[t][1].text)
         IN  QueryOut(calls[t][1].text, Headers(Some(first)), RowMappings(Some(first)),
                      outputs[t])

\* Lines 414-434: the response is built from the holders.
QueryResult(t) ==
    QueryOut(compiled_sql[t], Headers(rs[t]), RowMappings(rs[t]), outputs[t])

\* Lines 414-434 are outside the try of line 386: when fetchall raises the
\* exception leaves the handler.
run_query_result(t) ==
    /\ pc[t] = "loop"
    /\ loop_i[t] = Len(The(sql[t]))
    /\ \E fetch \in IF IsSome(rs[t]) THEN FetchOutcomes ELSE {"rows"} :
          IF fetch = "raises" THEN Ends(t, Unhandled) ELSE Ends(t, QueryResult(t))
    /\ UNCHANGED <<registry, kind, req, locals, event_loop>>

----------------------------------------------------------------------------
(* POST /raw_query: run_raw_query, lines 321-363 *)

NotAConnection == HTTPException(401, "Not a valid connection")

\* Lines 322-327: the lookup.
run_raw_query_get(t, requests) ==
    \E q \in requests :
        /\ Begins(t, "run_raw_query", q)
        /\ LET found == Get(CONNECTIONS, q.connection)
           IN  IF ~IsSome(found)
               THEN /\ Ends(t, NotAConnection)
                    /\ UNCHANGED <<registry, locals>>
               ELSE /\ executor' = [executor EXCEPT ![t] = found]
                    /\ pc' = [pc EXCEPT ![t] = "raw"]
                    /\ UNCHANGED <<registry, sql, rs, compiled_sql, outputs,
                                   loop_i, calls, formatted, response>>

\* A variant of the raw path that is not the code's: a header that names a
\* concept of the connection's environment takes the concept's metadata.
RawResultFromEnvironment(h, ex, text) ==
    IF DriverRejects(ex.engine, text)
    THEN HTTPException(500, "driver error")
    ELSE LET result == DriverExecute(ex.engine, text)
             column(k) ==
                 IF result.keys[k] \in h[ex.environment]
                 THEN <<result.keys[k],
                        [name |-> result.keys[k],
                         purpose |-> ConceptPurpose(result.keys[k]),
                         datatype |-> ConceptDatatype(result.keys[k])]>>
                 ELSE RawOutputs(result)[k]
         IN  QueryOut(text, Headers(Some(result)), RowMappings(Some(result)),
                      [k \in 1..Len(result.keys) |-> column(k)])

\* Lines 328-363, with the environments h: the text goes to the executor's
\* engine as it is and the response is shaped from what the engine returns.
\* The rows are fetched at line 349, outside the try of line 328.
RawResult(h, ex, text) ==
    IF DriverRejects(ex.engine, text)
    THEN HTTPException(500, "driver error")
    ELSE LET result == DriverExecute(ex.engine, text)
         IN  QueryOut(text, Headers(Some(result)), RowMappings(Some(result)),
                      RawOutputs(result))

run_raw_query_execute(t) ==
    /\ pc[t] = "raw"
    /\ LET ex == The(executor[t])
           text == req[t].query
       IN  /\ calls' = [calls EXCEPT ![t] = Append(@, [engine |-> ex.engine, text |-> text])]
           /\ IF DriverRejects(ex.engine, text)
              THEN UNCHANGED <<rs, outputs>>
              ELSE /\ rs' = [rs EXCEPT ![t] = Some(DriverExecute(ex.engine, text))]
                   /\ outputs' = [outputs EXCEPT ![t] = RawOutputs(DriverExecute(ex.engine, text))]
           /\ \E fetch \in IF DriverRejects(ex.engine, text) THEN {"rows"}
                              ELSE FetchOutcomes :
                 IF fetch = "raises" THEN Ends(t, Unhandled)
                 ELSE Ends(t, RawResult(heap, ex, text))
    /\ UNCHANGED <<registry, kind, req, executor, sql, compiled_sql, loop_i,
                   formatted, event_loop>>

----------------------------------------------------------------------------
(* The response is sent and the worker is free for the next request *)

Respond(t) ==
    /\ pc[t] = "done"
    /\ ~Background(response[t])
    /\ pc' = [pc EXCEPT ![t] = "idle"]
    /\ kind' = [kind EXCEPT ![t] = None]
    /\ req' = [req EXCEPT ![t] = NoRequest]
    /\ executor' = [executor EXCEPT ![t] = NoExecutor]
    /\ sql' = [sql EXCEPT ![t] = Nothing]
    /\ rs' = [rs EXCEPT ![t] = Nothing]
    /\ compiled_sql' = [compiled_sql EXCEPT ![t] = EmptySql]
    /\ outputs' = [outputs EXCEPT ![t] = <<>>]
    /\ loop_i' = [loop_i EXCEPT ![t] = 0]
    /\ calls' = [calls EXCEPT ![t] = <<>>]
    /\ formatted' = [formatted EXCEPT ![t] = Nothing]
    /\ response' = [response EXCEPT ![t] = NoResponse]
    /\ heap' = Collect(heap, CONNECTIONS, executor')
    /\ UNCHANGED <<CONNECTIONS, lastUpsert, event_loop>>

----------------------------------------------------------------------------
(* GET /terminate and the shutdown, lines 443-445 and 459-484 *)

TerminateRequest == [endpoint |-> "terminate"]
Terminating == HTTPException(503, "Terminating server")

\* Lines 443-445: terminate raises the 503.
terminate(t) ==
    /\ Begins(t, "terminate", TerminateRequest)
    /\ Ends(t, Terminating)
    /\ UNCHANGED <<registry, locals>>

\* The response that has a background task is sent; its task runs next.
respond_shutdown(t) ==
    /\ pc[t] = "done"
    /\ Background(response[t])
    /\ pc' = [pc EXCEPT ![t] = "background"]
    /\ UNCHANGED <<registry, locals, kind, req, response, event_loop>>

\* Lines 459-469: every task of the loop is cancelled, the ones that wait
\* for a worker thread too, and the loop is stopped.
exit_app(t) ==
    /\ pc[t] = "background"
    /\ pc' = [u \in Tasks |-> IF pc[u] = "idle" THEN "idle" ELSE "cancelled"]
    /\ event_loop' = "stopped"
    /\ UNCHANGED <<registry, locals, kind, req, response>>

----------------------------------------------------------------------------
(* Specifications *)

\* One worker thread: the requests are served one after the other, each from
\* the full range of request bodies.
Next ==
    \E t \in {"t1"} :
        \/ create_connection_build(t, ConnectionRequests)
        \/ create_connection_store(t)
        \/ run_query_get(t, QueryInSchema)
        \/ run_query_compile(t)
        \/ run_query_statement(t)
        \/ run_query_result(t)
        \/ run_raw_query_get(t, RawQueryInSchema)
        \/ run_raw_query_execute(t)
        \/ Respond(t)

Spec == Init /\ [][Next]_vars

\* The thread pool: the handlers of several requests interleave step by step.
\* The request bodies are the ones that reach the registry: connections that
\* can be built, for one name, and queries of at most one statement.
PoolConnectionRequests ==
    {c \in ConnectionRequests :
        /\ c.name = "a"
        /\ c.full_model = Nothing
        /\ c.model \in {None, "m"}
        /\ c.dialect \in {DUCK_DB, BIGQUERY}
        /\ c.dialect = BIGQUERY => (c.credentials = "project" /\ c.extra = EmptyDict)}
PoolQueries ==
    {q \in QueryInSchema :
        /\ q.connection = "a"
        /\ q.query.chars = Body
        /\ q.query.valid
        /\ q.query.stmts \in {<<>>, <<[select |-> "x", limit |-> Nothing]>>}}
PoolRawQueries ==
    {q \in RawQueryInSchema :
        q.connection = "a" /\ q.query.limit = Nothing /\ q.query.header = "x"}

NextPool ==
    \E t \in Tasks :
        \/ create_connection_build(t, PoolConnectionRequests)
        \/ create_connection_store(t)
        \/ run_query_get(t, PoolQueries)
        \/ run_query_compile(t)
        \/ run_query_statement(t)
        \/ run_query_result(t)
        \/ run_raw_query_get(t, PoolRawQueries)
        \/ run_raw_query_execute(t)
        \/ Respond(t)

SpecPool == Init /\ [][NextPool]_vars

\* The whole router: a worker thread serves the plain endpoints while the
\* event loop serves, one at a time, the endpoints that are coroutines; the
\* event loop runs a step that is ready.  The request bodies are one of each
\* outcome of create_connection, and one query of each outcome.
Worker == "t1"
Coroutine == "t2"
AppConnectionRequests ==
    {c \in ConnectionRequests :
        /\ c.model = None
        /\ c.full_model \in {Nothing, Some([sources |-> <<[alias |-> "ns", contents |-> "garbage"]>>])}
        /\ c.dialect = BIGQUERY => (c.credentials /= "raises" /\ c.extra = EmptyDict)}
AppQueries ==
    {q \in QueryInSchema :
        /\ q.connection = "a"
        /\ q.query.chars = Body
        /\ \/ ~q.query.valid
           \/ q.query.defs = {"x"} /\ q.query.stmts = <<[select |-> "x", limit |-> Nothing]>>}
AppRawQueries ==
    {q \in RawQueryInSchema :
        q.connection = "a" /\ q.query.limit = Nothing /\ q.query.header = "x"
        /\ q.query.table = "tbl"}

NextApp ==
    \/ create_connection_build(Worker, AppConnectionRequests)
    \/ create_connection_store(Worker)
    \/ run_query_get(Worker, AppQueries)
    \/ run_query_compile(Worker)
    \/ run_query_statement(Worker)
    \/ run_query_result(Worker)
    \/ run_raw_query_get(Worker, AppRawQueries)
    \/ run_raw_query_execute(Worker)
    \/ list_connections(Coroutine)
    \/ update_connection_build(Coroutine, AppConnectionRequests)
    \/ update_connection_store(Coroutine)
    \/ terminate(Coroutine)
    \/ respond_shutdown(Coroutine)
    \/ exit_app(Coroutine)
    \/ \E t \in Tasks : Respond(t)

SpecApp ==
    /\ Init /\ [][NextApp]_vars
    /\ WF_vars(respond_shutdown(Coroutine))
    /\ WF_vars(exit_app(Coroutine))

----------------------------------------------------------------------------
(* Properties *)

Finished(t, endpoint) == pc[t] = "done" /\ kind[t] = endpoint
Plans(t) == req[t].query.stmts

\* C1: every statement run_query hands to the driver carries the limit
\* min(L, 100) when its plan had the limit L set, and 100 when it had none;
\* this for each statement of the request, in its order.
ClaimedLimit(limit) ==
    IF IsSome(limit) THEN Min(The(limit), STATEMENT_LIMIT) ELSE STATEMENT_LIMIT
C1_RowLimitClamp ==
    \A t \in Tasks :
        kind[t] = "run_query" =>
            \A k \in 1..Len(calls[t]) :
                /\ calls[t][k].text.pos = k
                /\ calls[t][k].text.limit = Some(ClaimedLimit(Plans(t)[k].limit))
                /\ The(sql[t])[k].limit = Some(ClaimedLimit(Plans(t)[k].limit))

\* The same, for the plans whose limit is not 0: what the code does keep.
C1_ClampOfNonZeroLimits ==
    \A t \in Tasks :
        kind[t] = "run_query" =>
            \A k \in 1..Len(calls[t]) :
                Plans(t)[k].limit /= Some(0) =>
                    /\ calls[t][k].text.pos = k
                    /\ calls[t][k].text.limit = Some(ClaimedLimit(Plans(t)[k].limit))
                    /\ The(sql[t])[k].limit = Some(ClaimedLimit(Plans(t)[k].limit))

\* A plan with limit 0 has been executed.
C1_ZeroLimitExecuted ==
    \E t \in Tasks :
        /\ kind[t] = "run_query"
        /\ \E k \in 1..Len(calls[t]) : Plans(t)[k].limit = Some(0)

\* C2: a run_query request whose text does not compile ends with 422 and no
\* driver call; one whose text compiles and whose SQL the driver rejects ends
\* with 500; 422 is given for nothing else, and 500 for nothing but a failure
\* after compilation (a rejected statement, or the rows of the last result
\* that could not be fetched).
FetchFailed(t) == response[t] = Unhandled
Compiles(t) ==
    /\ safe_format_query(req[t].query.chars).ok
    /\ CompileOk(req[t].query, heap[The(executor[t]).environment])
Rejected(t) ==
    \E k \in 1..Len(calls[t]) : DriverRejects(calls[t][k].engine, calls[t][k].text)
C2_FailureClassification ==
    \A t \in Tasks :
        (Finished(t, "run_query") /\ IsSome(executor[t])) =>
            /\ ~Compiles(t) => (response[t].status = 422 /\ calls[t] = <<>>)
            /\ (Compiles(t) /\ Rejected(t)) => response[t].status = 500
            /\ response[t].status = 422 => (~Compiles(t) /\ calls[t] = <<>>)
            /\ response[t].status = 500 =>
                  (Compiles(t) /\ calls[t] /= <<>> /\ (Rejected(t) \/ FetchFailed(t)))
            /\ response[t].status \in {200, 422, 500}

\* A request of two statements has ended in the execution failure of its
\* second statement.
C2_ExecutionFailureReached ==
    \E t \in Tasks :
        /\ Finished(t, "run_query")
        /\ response[t].status = 500
        /\ Len(calls[t]) = 2

\* C3: when the n >= 1 statements of a run_query request have all executed,
\* the generated SQL, headers, rows and column metadata of the response are
\* those of statement n, and of no other.
NthStatementSql(t, n) ==
    CompileStatement(The(executor[t]).dialect,
                     [pos |-> n, select |-> Plans(t)[n].select,
                      limit |-> ClampLimit(Plans(t)[n].limit)])
OfOneUpsert(ex) ==
    /\ ex.engine.id = ex.environment
    /\ ex.engine.dialect = ex.dialect
C4_AtomicReplace ==
    /\ \A n \in DOMAIN CONNECTIONS : OfOneUpsert(CONNECTIONS[n])
    /\ \A t \in Tasks :
          (kind[t] \in {"run_query", "run_raw_query"} /\ IsSome(executor[t])) =>
              OfOneUpsert(The(executor[t]))

\* A lookup holds the executor of a name while another request has replaced
\* the entry by one of another dialect.
C4_ReplacedUnderLookup ==
    \E t \in Tasks :
        /\ kind[t] \in {"run_query", "run_raw_query"}
        /\ IsSome(executor[t])
        /\ pc[t] /= "done"
        /\ req[t].connection \in DOMAIN CONNECTIONS
        /\ CONNECTIONS[req[t].connection].dialect /= The(executor[t]).dialect
        /\ \E u \in Tasks : u /= t /\ Finished(u, "create_connection")

\* C5: the registry holds, for each name, the executor of the latest
\* create_connection that stored under it, with that request's dialect; a name
\* nothing was stored under is not found; and a store changes the entry of
\* its own name only.
C5_RegistryIsLatestUpsert ==
    /\ DOMAIN CONNECTIONS = DOMAIN lastUpsert
    /\ \A n \in DOMAIN CONNECTIONS :
          /\ IsSome(Get(CONNECTIONS, n))
          /\ The(Get(CONNECTIONS, n)).dialect = lastUpsert[n].dialect
          /\ The(Get(CONNECTIONS, n)).engine.id = lastUpsert[n].id
    /\ \A n \in Names \ DOMAIN lastUpsert : ~IsSome(Get(CONNECTIONS, n))
    /\ \A t \in Tasks :
          Finished(t, "create_connection") /\ response[t].status = 200 =>
              /\ req[t].name \in DOMAIN CONNECTIONS
              /\ CONNECTIONS[req[t].name] = The(executor[t])
              /\ CONNECTIONS[req[t].name].dialect = req[t].dialect
C5_OtherNamesUnchanged ==
    \A n \in Names :
        Get(CONNECTIONS', n) /= Get(CONNECTIONS, n) =>
            \E t \in Tasks :
                /\ pc[t] = "store" /\ pc'[t] = "done"
                /\ req[t].name = n
                /\ Get(CONNECTIONS', n) = executor[t]
C5_UpsertThenGet == []C5_RegistryIsLatestUpsert /\ [][C5_OtherNamesUnchanged]_vars

\* Both names are registered and a further upsert has replaced the entry of
\* one of them (its executor is an object made while two others were alive).
C5_Replaced ==
    \E t \in Tasks :
        /\ Finished(t, "create_connection")
        /\ response[t].status = 200
        /\ The(executor[t]).engine.id > Cardinality(Names)
        /\ DOMAIN CONNECTIONS = Names

\* C6: run_query and run_raw_query on a name the registry does not hold end
\* at once with the not-a-connection error (403 and 401), with no rows, no
\* compilation and no driver call, and leave the registry as it was.
C6_Step ==
    \A t \in Tasks :
        (/\ pc[t] = "idle"
         /\ kind'[t] \in {"run_query", "run_raw_query"}
         /\ req'[t].connection \notin DOMAIN CONNECTIONS) =>
            /\ pc'[t] = "done"
            /\ response'[t].status = IF kind'[t] = "run_query" THEN 403 ELSE 401
            /\ response'[t].results = <<>>
            /\ response'[t].headers = <<>>
            /\ response'[t].columns = <<>>
            /\ ~IsSome(executor'[t])
            /\ ~IsSome(sql'[t])
            /\ calls'[t] = <<>>
            /\ CONNECTIONS' = CONNECTIONS
            /\ heap' = heap
C6_NotFoundIsFor ==
    \A t \in Tasks :
        (pc[t] = "done" /\ response[t].status \in {401, 403}) =>
            /\ kind[t] \in {"run_query", "run_raw_query"}
            /\ ~IsSome(executor[t])
            /\ ~IsSome(sql[t])
            /\ calls[t] = <<>>
C6_ConnectionNotFound == [][C6_Step]_vars /\ []C6_NotFoundIsFor

\* A query on a missing name has failed while another name is registered.
C6_MissingAmongOthers ==
    \E t \in Tasks :
        /\ Finished(t, "run_query")
        /\ response[t].status = 403
        /\ CONNECTIONS /= <<>>

\* C7: when the driver rejects statement k of a run_query request, the request
\* ends there: the response is the bare 500, with no SQL, headers, rows or
\* column metadata of the statements before, and no later statement is taken.
C7_NoPartialSuccess ==
    \A t \in Tasks :
        kind[t] = "run_query" =>
            \A k \in 1..Len(calls[t]) :
                DriverRejects(calls[t][k].engine, calls[t][k].text) =>
                    /\ k = Len(calls[t])
                    /\ loop_i[t] = k
                    /\ pc[t] = "done"
                    /\ response[t].status = 500
                    /\ response[t].generated_sql = EmptySql
                    /\ response[t].headers = <<>>
                    /\ response[t].results = <<>>
                    /\ response[t].columns = <<>>

\* The second statement of a request has failed after the first one left its
\* result in the holders.
C7_FailedAfterSuccess ==
    \E t \in Tasks :
        /\ Finished(t, "run_query")
        /\ Len(calls[t]) = 2
        /\ Rejected(t)
        /\ IsSome(rs[t])
        /\ outputs[t] /= <<>>

\* C8: when the full model of a create_connection request does not parse,
\* nothing is stored under the name and the response is a client error (4xx).
FullModelFails(c) ==
    IsSome(c.full_model) /\ ~parse_env_from_full_model(The(c.full_model)).ok
C8_ParseFailureIsClientError ==
    \A t \in Tasks :
        (Finished(t, "create_connection") /\ FullModelFails(req[t])) =>
            /\ response[t].status \in 400..499
            /\ ~IsSome(executor[t])

\* What the code does on the failure: nothing is built or stored, and the
\* response is the 500 of line 265.
C8_ParseFailureAborts ==
    /\ \A t \in Tasks :
          (Finished(t, "create_connection") /\ FullModelFails(req[t])) =>
              /\ response[t].status = 500
              /\ ~IsSome(executor[t])
    /\ \A t \in Tasks :
          (kind[t] = "create_connection" /\ pc[t] = "store") => ~FullModelFails(req[t])

\* C9: a create_connection request for a dialect other than DUCK_DB and
\* BIGQUERY ends with the unsupported-dialect error, and a BIGQUERY request
\* whose credentials resolve but give no project id, with none in the extra
\* either, ends with the missing-project error; both are client errors and
\* nothing is built or stored for them.
NoProject(c) ==
    c.dialect = BIGQUERY /\ c.credentials /= "raises" /\ ~TruthyStr(ResolveProject(c))
C9_ReportedNotDefaulted ==
    \A t \in Tasks :
        Finished(t, "create_connection") =>
            /\ req[t].dialect \notin {DUCK_DB, BIGQUERY} =>
                  (response[t] = UnsupportedDialect /\ ~IsSome(executor[t]))
            /\ NoProject(req[t]) =>
                  (response[t] = MissingProject /\ ~IsSome(executor[t]))

\* The same for the requests whose environment is built: what the code keeps.
C9_WhenEnvironmentBuilds ==
    \A t \in Tasks :
        (Finished(t, "create_connection") /\ ~FullModelFails(req[t])) =>
            /\ req[t].dialect \notin {DUCK_DB, BIGQUERY} =>
                  (response[t] = UnsupportedDialect /\ ~IsSome(executor[t]))
            /\ NoProject(req[t]) =>
                  (response[t] = MissingProject /\ ~IsSome(executor[t]))
C9_FailureLeavesRegistry ==
    \A t \in Tasks :
        (pc[t] = "idle" /\ kind'[t] = "create_connection" /\ pc'[t] = "done") =>
            (CONNECTIONS' = CONNECTIONS /\ heap' = heap)
C9_RegistryUntouched == [][C9_FailureLeavesRegistry]_vars

\* C10: the response of run_raw_query is the same whatever the environment of
\* the connection holds; its SQL is the submitted text, which is the text the
\* driver was given; every column is a KEY of type STRING; and the rows are
\* all the rows the driver returned for that text.
C10_RawPathIsolation ==
    \A t \in Tasks :
        (Finished(t, "run_raw_query") /\ IsSome(executor[t])) =>
            LET ex == The(executor[t])
                text == req[t].query
            IN  /\ ~FetchFailed(t) =>
                      /\ \A env \in SUBSET Concepts :
                            response[t] =
                                RawResult([heap EXCEPT ![ex.environment] = env], ex, text)
                      /\ \A r \in EnvRefs :
                            response[t] = RawResult(heap, [ex EXCEPT !.environment = r], text)
                /\ calls[t] = <<[engine |-> ex.engine, text |-> text]>>
                /\ response[t].status = 200 =>
                      /\ response[t].generated_sql = text
                      /\ Len(response[t].columns) = Len(response[t].headers)
                      /\ \A k \in 1..Len(response[t].columns) :
                            /\ response[t].columns[k][1] = response[t].headers[k]
                            /\ response[t].columns[k][2].purpose = "key"
                            /\ response[t].columns[k][2].datatype = "string"
                      /\ Len(response[t].results) = RowCount(text)
                      /\ text.limit = Nothing => Len(response[t].results) = TableRows

\* A raw query has returned rows from a connection whose environment holds
\* the concepts of the template.
C10_RawOnPopulatedEnvironment ==
    \E t \in Tasks :
        /\ Finished(t, "run_raw_query")
        /\ response[t].status = 200
        /\ heap[The(executor[t]).environment] = TemplateContents
        /\ response[t].results /= <<>>

\* C11: the environment of the executor a create_connection request builds
\* holds what the full model declares when the request has one, whether or not
\* it names a model too; else the contents of the template it names; and
\* nothing when the name is not in the inventory or the request names no
\* model.  An unknown name is no error: with a dialect that can be built the
\* request ends with success and its entry is stored.
SourceContents(c) ==
    IF IsSome(c.full_model)
    THEN UNION {ParsedConcepts(The(c.full_model).sources[k]) :
                  k \in 1..Len(The(c.full_model).sources)}
    ELSE IF c.model \in ModelNames THEN TemplateContents
    ELSE {}
C11_EnvironmentSource ==
    \A t \in Tasks :
        kind[t] = "create_connection" =>
            /\ (pc[t] \in {"store", "done"} /\ IsSome(executor[t])) =>
                  heap[The(executor[t]).environment] = SourceContents(req[t])
            /\ (pc[t] = "done" /\ req[t].model = "unknown" /\ ~IsSome(req[t].full_model)
                  /\ req[t].dialect = DUCK_DB) =>
                  /\ response[t] = Created
                  /\ req[t].name \in DOMAIN CONNECTIONS
                  /\ heap[CONNECTIONS[req[t].name].environment] = {}

\* A connection has been stored for a request that has a full model and
\* names a template too.
C11_FullModelAndNamedModel ==
    \E t \in Tasks :
        /\ Finished(t, "create_connection")
        /\ response[t].status = 200
        /\ req[t].model = "m"
        /\ IsSome(req[t].full_model)
        /\ The(req[t].full_model).sources /= <<>>

\* C12: every template of the inventory holds what it held when the module
\* was loaded; the environment of a registered connection is an object of
\* its own, not a template and not the environment of another name; and the
\* compile step of a query changes the environment of the executor it
\* resolved and no other object.
C12_TemplatesAndCopies ==
    /\ \A m \in ModelNames : heap[public_models[m]] = TemplateContents
    /\ \A n \in DOMAIN CONNECTIONS :
          /\ \A m \in ModelNames : CONNECTIONS[n].environment /= public_models[m]
          /\ \A o \in DOMAIN CONNECTIONS :
                o /= n => CONNECTIONS[o].environment /= CONNECTIONS[n].environment
C12_CompileTouchesOwnEnvironment ==
    \A t \in Tasks :
        (pc[t] = "compile" /\ pc'[t] /= "compile") =>
            \A r \in EnvRefs :
                r /= The(executor[t]).environment => heap'[r] = heap[r]
C12_DeepCopyIsolation ==
    []C12_TemplatesAndCopies /\ [][C12_CompileTouchesOwnEnvironment]_vars

\* Two names are registered from the same template, and a query on one of
\* them has added a declaration that its environment now holds and the other
\* one, like the template, does not.
C12_DeclaredInOneCopy ==
    \E t \in Tasks :
        /\ Finished(t, "run_query")
        /\ response[t].status = 200
        /\ req[t].query.defs = {"x"}
        /\ heap[The(executor[t]).environment] = TemplateContents \cup {"x"}
        /\ \E o \in DOMAIN CONNECTIONS :
              /\ o /= req[t].connection
              /\ heap[CONNECTIONS[o].environment] = TemplateContents

\* C14: in every successful response of run_query and run_raw_query there is
\* one row mapping per row fetched, in the driver's order, and the mapping at
\* position i, counted from 0, has _index = i, whatever the columns are named.
C14_SyntheticIndex ==
    \A t \in Tasks :
        (pc[t] = "done" /\ kind[t] \in {"run_query", "run_raw_query"}
           /\ response[t].status = 200) =>
            LET fetched == IF IsSome(rs[t]) THEN The(rs[t]).rows ELSE <<>>
            IN  /\ Len(response[t].results) = Len(fetched)
                /\ \A k \in 1..Len(fetched) : response[t].results[k]["_index"] = k - 1

\* The same for the results that have no column named _index, with the
\* values of the driver's columns: what the code does keep.
C14_IndexBesideOtherColumns ==
    \A t \in Tasks :
        (pc[t] = "done" /\ kind[t] \in {"run_query", "run_raw_query"}
           /\ response[t].status = 200) =>
            LET fetched == IF IsSome(rs[t]) THEN The(rs[t]).rows ELSE <<>>
            IN  /\ Len(response[t].results) = Len(fetched)
                /\ \A k \in 1..Len(fetched) :
                      /\ "_index" \notin DOMAIN fetched[k] =>
                            response[t].results[k]["_index"] = k - 1
                      /\ \A h \in DOMAIN fetched[k] :
                            response[t].results[k][h] = fetched[k][h]

\* C16: a run_query request whose text compiled and that ends in a failure
\* ends with the 500 of the except clause of line 413, whichever step after
\* compilation failed: never with 422, and never with an exception that
\* leaves the handler.
C16_FailuresAfterCompile ==
    \A t \in Tasks :
        (Finished(t, "run_query") /\ IsSome(sql[t]) /\ response[t].status /= 200) =>
            /\ response[t] = ExecutionError(t)
            /\ response[t] /= Unhandled

\* The same for the failures of the loop over the statements: what the code
\* does keep.
C16_FailuresInsideTheLoop ==
    \A t \in Tasks :
        (Finished(t, "run_query") /\ IsSome(sql[t]) /\ Rejected(t)) =>
            response[t] = ExecutionError(t)

\* C17: the limit a plan carries after the clamp step is not negative, not
\* above 100, and, when the plan had a limit set, not greater than that limit.
C17_LimitInvariant ==
    \A t \in Tasks :
        kind[t] = "run_query" =>
            \A k \in 1..Len(calls[t]) :
                LET clamped == The(The(sql[t])[k].limit)
                IN  /\ clamped >= 0
                    /\ clamped <= STATEMENT_LIMIT
                    /\ calls[t][k].text.limit = Some(clamped)
                    /\ IsSome(Plans(t)[k].limit) => clamped <= The(Plans(t)[k].limit)

\* The bounds, and the comparison to the limit that was set for the limits
\* other than 0: what the code does keep.
C17_WithinTheCap ==
    \A t \in Tasks :
        kind[t] = "run_query" =>
            \A k \in 1..Len(calls[t]) :
                /\ The(The(sql[t])[k].limit) >= 0
                /\ The(The(sql[t])[k].limit) <= STATEMENT_LIMIT
                /\ Plans(t)[k].limit /= Some(0) =>
                      (IsSome(Plans(t)[k].limit) =>
                          The(The(sql[t])[k].limit) <= The(Plans(t)[k].limit))

\* C18: the text run_query hands to the compiler is the request's text
\* without the white space at its ends, with one ";" appended when it is not
\* empty and does not end with ";", and as it is otherwise; for a text that
\* is empty after trimming the normalisation does not fail; and normalising
\* the result again changes nothing.
NormalisedAsClaimed(text) ==
    LET trimmed == Strip(text)
    IN  IF trimmed = <<>> THEN trimmed
        ELSE IF Last(trimmed) = ";" THEN trimmed
        ELSE trimmed \o <<";">>
C18_TextNormalisation ==
    \A t \in Tasks :
        (kind[t] = "run_query" /\ IsSome(formatted[t])) =>
            /\ The(formatted[t]).ok
            /\ The(formatted[t]).text = NormalisedAsClaimed(req[t].query.chars)
            /\ safe_format_query(The(formatted[t]).text) = The(formatted[t])

\* The same for the texts that are not empty after trimming: what the code
\* does keep.  A text that is empty after trimming ends in the parsing error.
C18_NonEmptyTexts ==
    \A t \in Tasks :
        (kind[t] = "run_query" /\ IsSome(formatted[t])) =>
            IF Strip(req[t].query.chars) = <<>>
            THEN ~The(formatted[t]).ok /\ response[t] = ParsingError
            ELSE /\ The(formatted[t]).ok
                 /\ The(formatted[t]).text = NormalisedAsClaimed(req[t].query.chars)
                 /\ safe_format_query(The(formatted[t]).text) = The(formatted[t])
                 /\ Last(The(formatted[t]).text) = ";"

\* C19: a run_query request keeps the executor it looked up until it ends,
\* whatever is stored under the name meanwhile: its compile step changes the
\* environment of that executor and no other, and every statement is rendered
\* for that executor's dialect and executed on that executor's engine, the
\* engine that was built together with the environment.
C19_OneTriple ==
    \A t \in Tasks :
        (kind[t] = "run_query" /\ IsSome(executor[t])) =>
            \A k \in 1..Len(calls[t]) :
                /\ calls[t][k].engine = The(executor[t]).engine
                /\ calls[t][k].engine.id = The(executor[t]).environment
                /\ calls[t][k].text.dialect = The(executor[t]).dialect
C19_ResolvedOnce ==
    \A t \in Tasks :
        (kind[t] = "run_query" /\ IsSome(executor[t]) /\ pc[t] /= "done") =>
            /\ executor'[t] = executor[t]
            /\ pc[t] = "compile" /\ pc'[t] /= "compile" =>
                  \A r \in EnvRefs :
                      r /= The(executor[t]).environment => heap'[r] = heap[r]
C19_InFlightIsolation == []C19_OneTriple /\ [][C19_ResolvedOnce]_vars

\* A request has executed its statement on the executor it looked up, after
\* another request stored a different entry under the name.
C19_ReplacedInFlight ==
    \E t \in Tasks :
        /\ Finished(t, "run_query")
        /\ response[t].status = 200
        /\ calls[t] /= <<>>
        /\ req[t].query.defs /= {}
        /\ CONNECTIONS[req[t].connection].engine /= The(executor[t]).engine
        /\ CONNECTIONS[req[t].connection].dialect /= The(executor[t]).dialect
        /\ \E u \in Tasks : Finished(u, "create_connection")

\* C13: list_connections answers with one item for each name the registry
\* holds when it runs, with that name and the dialect of its entry, and with
\* no other item; this in every state of the registry, a store of
\* create_connection having come before or coming after.
C13_ListStep ==
    \A t \in Tasks :
        (pc[t] = "idle" /\ kind'[t] = "list_connections") =>
            /\ response'[t].status = 200
            /\ {item.name : item \in response'[t].connections} = DOMAIN CONNECTIONS
            /\ Cardinality(response'[t].connections) = Cardinality(DOMAIN CONNECTIONS)
            /\ \A item \in response'[t].connections :
                  item.dialect = CONNECTIONS[item.name].dialect
C13_ListConnections == [][C13_ListStep]_vars

\* What the code does: the listing of the empty registry is the empty list,
\* and the listing of any other registry ends in the exception of the first
\* item.
C13_ListOfEmptyRegistryStep ==
    \A t \in Tasks :
        (pc[t] = "idle" /\ kind'[t] = "list_connections") =>
            IF CONNECTIONS = <<>>
            THEN response'[t] = ConnectionListOutput({})
            ELSE response'[t] = Unhandled
C13_ListOfEmptyRegistry == [][C13_ListOfEmptyRegistryStep]_vars

\* C20: update_connection ends with the response create_connection gives for
\* the same request, and has stored the entry create_connection stores; each
\* of the two reports success exactly when it has stored under the name.
CreateResponse(c) ==
    LET env == BuildEnvironment(c, heap, 1)
        built == BuildExecutor(c, env.built.ref, 1)
    IN  IF ~env.ok THEN FullModelParseError
        ELSE IF ~built.ok THEN built.error
        ELSE Created
C20_UpdateEqualsCreate ==
    \A t \in Tasks :
        (pc[t] = "done" /\ kind[t] \in {"create_connection", "update_connection"}) =>
            /\ response[t] = CreateResponse(req[t])
            /\ response[t].status = 200 <=> IsSome(executor[t])

\* The registry effect alone, and the responses of the requests that fail:
\* what the code does keep.  The store of either endpoint puts the executor
\* the request built under the request's name and leaves the other names.
C20_FailuresAndStores ==
    \A t \in Tasks :
        (pc[t] = "done" /\ kind[t] \in {"create_connection", "update_connection"}) =>
            /\ CreateResponse(req[t]) /= Created =>
                  (response[t] = CreateResponse(req[t]) /\ ~IsSome(executor[t]))
            /\ CreateResponse(req[t]) = Created =>
                  /\ IsSome(executor[t])
                  /\ The(executor[t]).dialect = req[t].dialect
                  /\ response[t] =
                        IF kind[t] = "update_connection" THEN AwaitNone ELSE Created
C20_StoreStep ==
    \A t \in Tasks :
        (pc[t] = "store" /\ pc'[t] = "done") =>
            /\ Get(CONNECTIONS', req[t].name) = executor[t]
            /\ \A n \in Names \ {req[t].name} : Get(CONNECTIONS', n) = Get(CONNECTIONS, n)
C20_SameRegistryEffect == []C20_FailuresAndStores /\ [][C20_StoreStep]_vars

\* C15: a terminate request is answered with the 503; once it is, the event
\* loop is eventually stopped with every request then in flight cancelled;
\* and the loop is stopped by nothing but the background task of a terminate
\* request, whatever the other requests end with.
InFlight(t) == pc[t] \notin {"idle", "cancelled"}
C15_TerminateIsAnswered ==
    \A t \in Tasks :
        /\ (kind[t] = "terminate" /\ pc[t] \in {"done", "background"}) =>
              (response[t].status = 503 /\ Background(response[t]))
        /\ pc[t] = "background" => kind[t] = "terminate"
        /\ event_loop = "stopped" =>
              (~InFlight(t) /\ \E u \in Tasks : kind[u] = "terminate")
C15_OnlyTerminateStops ==
    /\ event_loop' /= event_loop =>
          \E t \in Tasks : kind[t] = "terminate" /\ pc[t] = "background"
    /\ \A t \in Tasks :
          (pc[t] = "done" /\ kind[t] /= "terminate" /\ pc'[t] /= "done") =>
              (pc'[t] = "idle" \/ event_loop' = "stopped")
C15_Stops ==
    (\E t \in Tasks : kind[t] = "terminate" /\ pc[t] = "done")
        ~> (event_loop = "stopped" /\ \A u \in Tasks : ~InFlight(u))
C15_CooperativeShutdown ==
    []C15_TerminateIsAnswered /\ [][C15_OnlyTerminateStops]_vars /\ C15_Stops

\* The loop has been stopped while the worker was serving a request that
\* had ended with a 500.
C15_StoppedWithRequestInFlight ==
    /\ event_loop = "stopped"
    /\ kind[Worker] = "run_query"
    /\ pc[Worker] = "cancelled"
    /\ response[Worker].status = 500

====
